---- MODULE Spec2Model ----
(***************************************************************************)
(* Model of the Delhi air-quality dashboard (src/app.py): the AQI          *)
(* classifier, the PM2.5 -> AQI converter, the nearby-station selection,   *)
(* the alert message, send_sms_alert, the alerts tab and the "Send Alert   *)
(* Now" flow of the SMS tab.                                               *)
(*                                                                         *)
(* Number representation                                                   *)
(*   - a PM2.5 concentration is an integer count of 0.05 ug/m3, so that    *)
(*     12.0 is 240, 12.05 is 241 and 12.1 is 242;                          *)
(*   - an AQI value is an exact rational [num, den] with den > 0 (station  *)
(*     AQIs have den = 1, the mean of n stations has den = n);             *)
(*   - a latitude is an integer count of the arc that is 1 km long on the  *)
(*     meridian (1 / (6371 * pi / 180) degrees); a distance is an integer  *)
(*     count of 0.01 km.                                                   *)
(***************************************************************************)
EXTENDS Integers, Sequences, FiniteSets, TLC

VARIABLES
    \* ---- get_aqi_category called on its own ----
    aqi,            \* the argument, [num |-> n, den |-> d]
    category,       \* the category returned for it
    \* ---- pm25_to_aqi as called by fetch_openaq_latest ----
    rows,           \* the rows converted last (the tail of the list 'rows')
    conv_call,      \* the last call of pm25_to_aqi: [arg, ret]
    \* ---- the dashboard script, one run of it per action ----
    df,             \* aqi_data: the station rows [lat, lon, aqi]
    df_distance,    \* the column df['distance'], <<>> while df has none
    weather_data,   \* what fetch_weather_data returns
    twilio_config,  \* TWILIO_ACCOUNT_SID, TWILIO_AUTH_TOKEN, TWILIO_PHONE_NUMBER
    location_name,  \* the text inputs and widgets of the SMS tab
    phone_number,
    user_lat,
    user_lon,
    radius,
    header,         \* the metrics render_header showed
    alerts_tab,     \* what render_alerts_tab showed
    ui,             \* what the run showed for the button, in order
    nearby,         \* nearby_stations of this run
    alert_message,  \* alert_message of this run
    send_alert_btn, \* whether the button was pressed for this run
    provider,       \* what the provider library did in this run's call
    send_result,    \* what send_sms_alert returned in this run
    again,          \* a second get_nearby_stations on the same df: its results
    sms_log,        \* the messages the provider accepted: the last two
    now             \* the clock

convVars == <<rows, conv_call>>
classVars == <<aqi, category>>
inputVars == <<location_name, phone_number, user_lat, user_lon, radius>>
envVars == <<weather_data, twilio_config>>
runVars == <<send_alert_btn, header, alerts_tab, ui, nearby, alert_message,
             provider, send_result, df_distance, again>>
appVars == <<df, df_distance, weather_data, twilio_config, location_name,
             phone_number, user_lat, user_lon, radius, send_alert_btn, header,
             alerts_tab, ui, nearby, alert_message, provider, send_result, again, sms_log,
             now>>
vars == <<aqi, category, rows, conv_call, df, df_distance, weather_data,
          twilio_config, location_name, phone_number, user_lat, user_lon,
          radius, send_alert_btn, header, alerts_tab, ui, nearby,
          alert_message, provider, send_result, again, sms_log, now>>

(***************************************************************************)
(* Bounds                                                                  *)
(***************************************************************************)
MaxAqi == 320        \* largest AQI value handed to the classifier
MaxDen == 3          \* largest denominator of an AQI value
MaxConc == 10030     \* largest concentration converted (501.5 ug/m3)
MaxNeg == 20         \* most negative concentration converted (-1 ug/m3)
MaxStep == 2         \* largest difference between two consecutive rows
MaxStations == 4     \* most rows of the station feed, aggregation on its own
MaxFeed == 2         \* most rows of the station feed, whole script
MaxTime == 2         \* last tick of the clock
MaxAlertRows == 3    \* most rows of the station feed, alerts tab on its own

Abs(x) == IF x < 0 THEN -x ELSE x

Rat(n, d) == [num |-> n, den |-> d]

(***************************************************************************)
(* Values that are not numbers: Python's None and the float nan            *)
(***************************************************************************)
None == [kind |-> "None"]
nan == [kind |-> "nan"]

IsNumber(a) == "num" \in DOMAIN a

\* what a call that raised TypeError gives instead of a value
TypeError == "TypeError"

(***************************************************************************)
(* get_aqi_category (src/app.py 305-318): the first element of the tuple   *)
(* it returns.  aqi <= k is num <= k * den; every comparison with nan is   *)
(* False, and None <= 50 raises TypeError.                                 *)
(***************************************************************************)
le(a, k) == IsNumber(a) /\ a.num <= k * a.den

get_aqi_category_exclusive(a) ==
    IF a = None THEN TypeError
    ELSE IF le(a, 50) /\ a.num # 50 * a.den THEN "Good"
    ELSE IF le(a, 100) /\ a.num # 100 * a.den THEN "Moderate"
    ELSE IF le(a, 150) /\ a.num # 150 * a.den
    THEN "Unhealthy for Sensitive Groups"
    ELSE IF le(a, 200) /\ a.num # 200 * a.den THEN "Unhealthy"
    ELSE IF le(a, 300) /\ a.num # 300 * a.den THEN "Very Unhealthy"
    ELSE "Hazardous"

get_aqi_category(a) ==
    IF a = None THEN TypeError
    ELSE IF le(a, 50) THEN "Good"
    ELSE IF le(a, 100) THEN "Moderate"
    ELSE IF le(a, 150) THEN "Unhealthy for Sensitive Groups"
    ELSE IF le(a, 200) THEN "Unhealthy"
    ELSE IF le(a, 300) THEN "Very Unhealthy"
    ELSE "Hazardous"

(***************************************************************************)
(* pm25_to_aqi (src/app.py 915-940).                                       *)
(***************************************************************************)
\* (Clow, Chigh, Ilow, Ihigh); concentrations in units of 0.05 ug/m3
breakpoints ==
    << <<0, 240, 0, 50>>,
       <<242, 708, 51, 100>>,
       <<710, 1108, 101, 150>>,
       <<1110, 3008, 151, 200>>,
       <<3010, 5008, 201, 300>>,
       <<5010, 7008, 301, 400>>,
       <<7010, 10008, 401, 500>> >>

Clow(b) == b[1]
Chigh(b) == b[2]
Ilow(b) == b[3]
Ihigh(b) == b[4]

\* The concentrations of the 0.05 grid at which the exact value of line 937
\* is a half-integer and its IEEE-754 double evaluation lands on the upper
\* side of the half, so that round() goes up (5.4 ug/m3 gives
\* 22.500000000000004 and 23); at the other exact halves (0.6, 3.0, ...) the
\* double lands on or below the half and round() goes down.
HalfRoundsUp ==
    {36, 84, 108, 132, 180, 228, 475, 909, 2059, 3343, 3787, 4231, 4675,
     5343, 5787, 6231, 6675, 6897}

\* line 938: round(aqi), aqi = num / den at concentration c, den > 0, num >= 0
round(c, num, den) ==
    LET q == num \div den
        r == num % den
    IN  IF 2 * r < den THEN q
        ELSE IF 2 * r > den THEN q + 1
        ELSE IF c \in HalfRoundsUp THEN q + 1 ELSE q

\* line 936: Clow <= c <= Chigh
in_segment_open(c, b) == Clow(b) <= c /\ c < Chigh(b)
in_segment(c, b) == Clow(b) <= c /\ c <= Chigh(b)

\* lines 937-938: round(((Ihigh - Ilow) / (Chigh - Clow)) * (c - Clow) + Ilow)
segment_aqi_truncated(c, b) ==
    ((Ihigh(b) - Ilow(b)) * (c - Clow(b))) \div (Chigh(b) - Clow(b)) + Ilow(b)
segment_aqi(c, b) ==
    round(c, (Ihigh(b) - Ilow(b)) * (c - Clow(b)), Chigh(b) - Clow(b))
        + Ilow(b)

\* lines 935-940: the loop over the table, and the fall-through
RECURSIVE scan_breakpoints(_, _)
scan_breakpoints(c, i) ==
    IF i > Len(breakpoints) THEN 500
    ELSE IF in_segment(c, breakpoints[i])
         THEN segment_aqi(c, breakpoints[i])
         ELSE scan_breakpoints(c, i + 1)

pm25_to_aqi(c) == scan_breakpoints(c, 1)

\* The argument pm25_val as the feed's JSON can carry it: a number (kind
\* "float", c in units of 0.05 ug/m3), or a value float() does not accept:
\* None (TypeError) or a text that is not a number (ValueError).
Float(c) == [kind |-> "float", c |-> c]
NotNumeric == {[kind |-> "None"], [kind |-> "text"]}

\* what pm25_to_aqi returns
Number(n) == [kind |-> "number", value |-> n]

\* lines 920-923: try: c = float(pm25_val); except Exception: return np.nan
on_conversion_error_zero == Number(0)
on_conversion_error == nan

\* lines 915-940, on any argument
pm25_to_aqi_of(pm25_val) ==
    IF pm25_val.kind # "float" THEN on_conversion_error
    ELSE Number(pm25_to_aqi(pm25_val.c))

(***************************************************************************)
(* calculate_distance (src/app.py 335-349).  For two points of one         *)
(* meridian (dlon = 0) the haversine formula gives a = sin(dlat/2)^2,      *)
(* c = |dlat| and distance = R * |dlat|, which is |lat2 - lat1| km in the  *)
(* latitude unit of this model; the result is in units of 0.01 km.  All    *)
(* stations and query points of the model lie on one meridian.             *)
(***************************************************************************)
calculate_distance(lat1, lon1, lat2, lon2) == 100 * Abs(lat2 - lat1)

(***************************************************************************)
(* get_nearby_stations (src/app.py 352-360)                                *)
(***************************************************************************)
\* lines 354-358: df['distance'] = df.apply(...)
distance_column(d, lat, lon) ==
    [i \in 1..Len(d) |-> calculate_distance(lat, lon, d[i].lat, d[i].lon)]

\* the rows of df with their index label and the new column
with_distance(d, col) ==
    [i \in 1..Len(d) |->
        [idx |-> i, lat |-> d[i].lat, lon |-> d[i].lon, aqi |-> d[i].aqi,
         distance |-> col[i]]]

\* line 359: df[df['distance'] <= radius_km]
within_radius_exclusive(rs, radius_km) ==
    SelectSeq(rs, LAMBDA row : row.distance < 100 * radius_km)
within_radius(rs, radius_km) ==
    SelectSeq(rs, LAMBDA row : row.distance <= 100 * radius_km)

\* line 359: .sort_values('distance'); on the few rows of a station feed
\* the sort is an insertion sort, which keeps rows of equal distance in
\* their order
RECURSIVE insert_by_distance(_, _)
insert_by_distance(row, sorted) ==
    IF sorted = <<>> THEN <<row>>
    ELSE IF row.distance < sorted[Len(sorted)].distance
         THEN Append(insert_by_distance(row, SubSeq(sorted, 1, Len(sorted) - 1)),
                     sorted[Len(sorted)])
         ELSE Append(sorted, row)

RECURSIVE sort_values(_)
sort_values(rs) ==
    IF rs = <<>> THEN <<>>
    ELSE insert_by_distance(rs[Len(rs)], sort_values(SubSeq(rs, 1, Len(rs) - 1)))

\* line 354: df['distance'] = ...; 'col' is the column df has when the
\* function is entered (<<>> when it has none), and the assignment replaces it
assign_distance_accumulating(col, d, lat, lon) ==
    IF col = <<>> THEN distance_column(d, lat, lon)
    ELSE [i \in 1..Len(d) |-> col[i] + distance_column(d, lat, lon)[i]]
assign_distance(col, d, lat, lon) == distance_column(d, lat, lon)

get_nearby_stations(d, col, lat, lon, radius_km) ==
    sort_values(within_radius(
        with_distance(d, assign_distance(col, d, lat, lon)), radius_km))

(***************************************************************************)
(* fetch_weather_data (src/app.py 293-302) returns None or the decoded     *)
(* JSON: a dict that has a 'current' dict or has none, whose fields are    *)
(* present or not.  A temperature is an integer count of 0.1 degree.       *)
(***************************************************************************)
Weather(has_current, has_code, code, has_temp, temp) ==
    [kind |-> "dict", has_current |-> has_current,
     has_weather_code |-> has_code, weather_code |-> code,
     has_temperature_2m |-> has_temp, temperature_2m |-> temp]

FullWeather == Weather(TRUE, TRUE, 3, TRUE, 253)

Weathers ==
    {None,
     Weather(FALSE, FALSE, 0, FALSE, 0),    \* no 'current' (or an empty dict)
     FullWeather,
     Weather(TRUE, TRUE, 4, TRUE, 253),     \* a code the table does not have
     Weather(TRUE, FALSE, 0, TRUE, 253),    \* 'current' without weather_code
     Weather(TRUE, TRUE, 3, FALSE, 0)}      \* 'current' without temperature_2m

\* get_weather_info (src/app.py 321-332): the description
codes ==
    [c \in {0, 1, 2, 3, 45, 48, 51, 53, 55, 61, 63, 65, 80, 81, 82, 95, 96, 99}
       |-> CASE c = 0 -> "Clear sky" [] c = 1 -> "Mainly clear"
             [] c = 2 -> "Partly cloudy" [] c = 3 -> "Overcast"
             [] c = 45 -> "Fog" [] c = 48 -> "Depositing rime fog"
             [] c = 51 -> "Light drizzle" [] c = 53 -> "Moderate drizzle"
             [] c = 55 -> "Dense drizzle" [] c = 61 -> "Slight rain"
             [] c = 63 -> "Moderate rain" [] c = 65 -> "Heavy rain"
             [] c = 80 -> "Slight rain showers"
             [] c = 81 -> "Moderate rain showers"
             [] c = 82 -> "Violent rain showers" [] c = 95 -> "Thunderstorm"
             [] c = 96 -> "Thunderstorm, slight hail"
             [] c = 99 -> "Thunderstorm, heavy hail"]

get_weather_info(code) ==
    IF code \in DOMAIN codes THEN codes[code] ELSE "Unknown"

(***************************************************************************)
(* create_alert_message (src/app.py 405-440)                               *)
(***************************************************************************)
RECURSIVE sum_aqi(_)
sum_aqi(rs) == IF rs = <<>> THEN 0 ELSE rs[1].aqi + sum_aqi(Tail(rs))

\* 1 / (distance + 0.01), as the fraction 100 / (distance + 1) of this
\* model's units; the weighted mean is sum(aqi * w) / sum(w)
RECURSIVE weight_product(_)
weight_product(rs) ==
    IF rs = <<>> THEN 1 ELSE (rs[1].distance + 1) * weight_product(Tail(rs))

RECURSIVE weighted_sum(_, _, _)
weighted_sum(rs, prod, with_aqi) ==
    IF rs = <<>> THEN 0
    ELSE (IF with_aqi THEN rs[1].aqi ELSE 1) * (prod \div (rs[1].distance + 1))
            + weighted_sum(Tail(rs), prod, with_aqi)

weighted_mean(rs) ==
    Rat(weighted_sum(rs, weight_product(rs), TRUE),
        weighted_sum(rs, weight_product(rs), FALSE))

\* line 411: nearby_stations['aqi'].mean()
mean_aqi_weighted(rs) == weighted_mean(rs)
mean_aqi(rs) == Rat(sum_aqi(rs), Len(rs))

NoMessage == [kind |-> "none"]

\* the text "N/A" and a formatted temperature f"{t:.1f}C"
NA == [kind |-> "N/A"]
Celsius(t) == [kind |-> "celsius", tenths |-> t]

\* line 417: weather_data and 'current' in weather_data
has_current(weather) == weather # None /\ weather.has_current

\* line 419: get_weather_info(current.get('weather_code', 0))
weather_desc_of(weather) ==
    IF ~has_current(weather) THEN "N/A"
    ELSE get_weather_info(IF weather.has_weather_code
                          THEN weather.weather_code ELSE 0)

\* line 420: current['temperature_2m'] raises KeyError without the key
KeyError == [kind |-> "raised", error |-> "KeyError"]

create_alert_message(nearby_stations, weather, loc) ==
    IF nearby_stations = <<>>
    THEN [kind |-> "no_stations_text"]
    ELSE IF has_current(weather) /\ ~weather.has_temperature_2m
    THEN KeyError
    ELSE LET avg_aqi == mean_aqi(nearby_stations)
             worst_station == nearby_stations[1]
         IN  [kind |-> "alert",
              location_name |-> loc,
              category |-> get_aqi_category(avg_aqi),
              avg_aqi |-> avg_aqi,
              worst_station |-> worst_station.idx,
              worst_aqi |-> worst_station.aqi,
              worst_distance |-> worst_station.distance,
              weather_desc |-> weather_desc_of(weather),
              temp |-> IF has_current(weather)
                       THEN Celsius(weather.temperature_2m) ELSE NA]

(***************************************************************************)
(* send_sms_alert (src/app.py 363-402).  'config' holds the three module   *)
(* constants the function reads; 'twilio' is what the provider library     *)
(* does in this call.                                                      *)
(***************************************************************************)
\* lines 27-29, by the properties the checks of lines 369-376 read
TWILIO_ACCOUNT_SID == [placeholder |-> FALSE, starts_AC |-> TRUE, len |-> 34]
TWILIO_AUTH_TOKEN == [placeholder |-> FALSE, len |-> 32]
TWILIO_PHONE_NUMBER == [placeholder |-> FALSE, starts_plus |-> TRUE]

SourceConfig ==
    [sid |-> TWILIO_ACCOUNT_SID, token |-> TWILIO_AUTH_TOKEN,
     number |-> TWILIO_PHONE_NUMBER]

Twilio == {"not_installed", "accepted", "error_401", "error_unverified",
           "error_other"}

\* str.startswith("+") on a phone number, a tuple of characters
startswith_plus_nonempty(p) == Len(p) > 0
startswith_plus(p) == Len(p) > 0 /\ p[1] = "+"

NotCalled == [called |-> FALSE]

\* a returned (success, message) pair; the client is created (line 383) and
\* messages.create called (line 386), once, on the same path
Returned(ok, text, provider_called) ==
    [called |-> TRUE, raised |-> FALSE, success |-> ok, detail |-> text,
     client_created |-> provider_called,
     provider_called |-> provider_called,
     attempts |-> IF provider_called THEN 1 ELSE 0]

\* an exception that leaves the function
Raised(provider_called) ==
    [called |-> TRUE, raised |-> TRUE, success |-> FALSE, detail |-> "",
     client_created |-> provider_called,
     provider_called |-> provider_called,
     attempts |-> IF provider_called THEN 1 ELSE 0]

\* lines 369, 372, 375: the three checks of the credentials
account_sid_ok(sid) == ~sid.placeholder /\ sid.starts_AC
auth_token_ok_nonempty(token) == ~token.placeholder /\ token.len > 0
auth_token_ok(token) == ~token.placeholder /\ token.len >= 30
phone_number_ok(number) == ~number.placeholder /\ number.starts_plus

\* lines 370, 373, 376: return False, "... not configured correctly ..."
not_configured_simulated(text) == Returned(TRUE, text, FALSE)
not_configured(text) == Returned(FALSE, text, FALSE)

\* lines 395-402: except Exception as e
except_Exception_some(e) ==
    IF e = "error_401" THEN Returned(FALSE, "authentication_error", TRUE)
    ELSE IF e = "error_unverified"
    THEN Returned(FALSE, "number_not_verified", TRUE)
    ELSE Raised(TRUE)
except_Exception(e) ==
    IF e = "error_401" THEN Returned(FALSE, "authentication_error", TRUE)
    ELSE IF e = "error_unverified"
    THEN Returned(FALSE, "number_not_verified", TRUE)
    ELSE Returned(FALSE, "error_sending_sms", TRUE)

send_sms_alert(config, phone, message, twilio) ==
    IF twilio = "not_installed"         \* line 366 raises ImportError
    THEN Returned(FALSE, "twilio_not_installed", FALSE)
    ELSE IF ~account_sid_ok(config.sid)
    THEN not_configured("account_sid_not_configured")
    ELSE IF ~auth_token_ok(config.token)
    THEN not_configured("auth_token_not_configured")
    ELSE IF ~phone_number_ok(config.number)
    THEN not_configured("phone_number_not_configured")
    ELSE IF ~startswith_plus(phone)
    THEN Returned(FALSE, "recipient_needs_country_code", FALSE)
    ELSE IF twilio = "accepted"
    THEN Returned(TRUE, "alert_sent", TRUE)
    ELSE except_Exception(twilio)

(***************************************************************************)
(* render_header (src/app.py 447-468): the average-AQI metric card         *)
(***************************************************************************)
render_header(d) ==
    IF d = <<>> THEN [kind |-> "none"]
    ELSE LET mean == Rat(sum_aqi(d), Len(d))    \* line 460: df["aqi"].mean()
         IN  [kind |-> "metrics",
              avg_aqi |-> mean,
              category |-> get_aqi_category(mean)]

(***************************************************************************)
(* render_alerts_tab (src/app.py 557-582): the highest AQI with the        *)
(* category its advice is taken from, the cards of each alert level, and   *)
(* the notice shown when no level has a card.                              *)
(***************************************************************************)
Levels == <<"Hazardous", "Very Unhealthy", "Unhealthy">>

\* lines 567-569: the filters of the three levels
in_level_inclusive(level, a) ==
    CASE level = "Hazardous" -> a >= 300
      [] level = "Very Unhealthy" -> a >= 200 /\ a <= 300
      [] level = "Unhealthy" -> a >= 150 /\ a <= 200
in_level(level, a) ==
    CASE level = "Hazardous" -> a > 300
      [] level = "Very Unhealthy" -> a > 200 /\ a <= 300
      [] level = "Unhealthy" -> a > 150 /\ a <= 200

\* the rows of df with their index label
indexed(d) == [i \in 1..Len(d) |-> [idx |-> i, aqi |-> d[i].aqi]]

\* df[...] of lines 567-569
level_subset(level, d) ==
    SelectSeq(indexed(d), LAMBDA row : in_level(level, row.aqi))

\* line 577: subset.sort_values('aqi', ascending=False), an insertion sort
\* on the few rows of a feed
RECURSIVE insert_by_aqi_descending(_, _)
insert_by_aqi_descending(row, sorted) ==
    IF sorted = <<>> THEN <<row>>
    ELSE IF row.aqi > sorted[Len(sorted)].aqi
         THEN Append(insert_by_aqi_descending(
                         row, SubSeq(sorted, 1, Len(sorted) - 1)),
                     sorted[Len(sorted)])
         ELSE Append(sorted, row)

RECURSIVE sort_values_aqi_descending(_)
sort_values_aqi_descending(rs) ==
    IF rs = <<>> THEN <<>>
    ELSE insert_by_aqi_descending(
             rs[Len(rs)], sort_values_aqi_descending(SubSeq(rs, 1, Len(rs) - 1)))

\* line 561: df['aqi'].max()
RECURSIVE max_aqi_of(_)
max_aqi_of(d) ==
    IF Len(d) = 1 THEN d[1].aqi
    ELSE LET m == max_aqi_of(Tail(d))
         IN  IF d[1].aqi >= m THEN d[1].aqi ELSE m

\* line 579: the station each card names, by index
station_names(rs) == [n \in 1..Len(rs) |-> rs[n].idx]

\* lines 577-579: the cards of a level, in descending order of AQI
level_cards(level, d) ==
    station_names(sort_values_aqi_descending(level_subset(level, d)))

NoAlertsTab == [kind |-> "none"]

render_alerts_tab(d) ==
    [kind |-> "alerts",
     max_aqi |-> max_aqi_of(d),
     situation |-> get_aqi_category(Rat(max_aqi_of(d), 1)),
     cards |-> <<level_cards(Levels[1], d), level_cards(Levels[2], d),
                 level_cards(Levels[3], d)>>,
     no_alerts_notice |->
        \A k \in 1..Len(Levels) : level_subset(Levels[k], d) = <<>>]

\* lines 813-822: the tabs are rendered only when the feed has rows
alerts_shown(d) == IF d = <<>> THEN NoAlertsTab ELSE render_alerts_tab(d)

(***************************************************************************)
(* render_alert_subscription_tab (src/app.py 648-693): what pressing       *)
(* "Send Alert Now" does.                                                  *)
(***************************************************************************)
\* line 661: nearby_stations.empty
none_found_never(nearby_stations) == FALSE
none_found(nearby_stations) == nearby_stations = <<>>

\* lines 649-683: the guards, the selection, the message, the preview;
\* 'sends' tells whether line 686 is reached
Prepared(shown, col, nb, msg, sends) ==
    [ui |-> shown, df_distance |-> col, nearby |-> nb,
     alert_message |-> msg, sends |-> sends]

\* aqi_data is this run's copy of the cached feed: it has no distance column
prepare_alert(d, weather, loc, phone, lat, lon, rad) ==
    IF loc = "" \/ phone = <<>>
    THEN Prepared(<<"error_required_fields">>, <<>>, <<>>, NoMessage, FALSE)
    ELSE IF ~startswith_plus(phone)
    THEN Prepared(<<"error_country_code">>, <<>>, <<>>, NoMessage, FALSE)
    ELSE LET nearby_stations == get_nearby_stations(d, <<>>, lat, lon, rad)
             col == assign_distance(<<>>, d, lat, lon)
             msg == create_alert_message(nearby_stations, weather, loc)
         IN  IF none_found(nearby_stations)
             THEN Prepared(<<"warning_no_stations">>, col, nearby_stations,
                           NoMessage, FALSE)
             ELSE IF msg = KeyError
             THEN Prepared(<<"exception">>, col, nearby_stations, msg, FALSE)
             ELSE Prepared(<<"preview", "nearby_table">>, col, nearby_stations,
                           msg, TRUE)

\* lines 689-693: st.success or st.error (and the note that follows it)
show_result(res) == IF res.success THEN "success" ELSE "error_send"

(***************************************************************************)
(* The station feeds and the inputs of the model                           *)
(***************************************************************************)
StationRows(lats, aqis) ==
    {[lat |-> la, lon |-> 0, aqi |-> a] : la \in lats, a \in aqis}

Feeds(lats, aqis, n) ==
    UNION {[1..k -> StationRows(lats, aqis)] : k \in 0..n}

\* the whole script: stations 1 km and 11 km from the query point
FlowStations ==
    {[lat |-> 2, lon |-> 0, aqi |-> 40], [lat |-> 2, lon |-> 0, aqi |-> 160],
     [lat |-> 12, lon |-> 0, aqi |-> 160]}
FlowFeeds == UNION {[1..k -> FlowStations] : k \in 0..MaxFeed}
\* aggregation on its own: stations 1, 1, 4 and 11 km from the query point
AggFeeds == Feeds({0, 2, 5, 12}, {40, 60}, MaxStations) \ {<<>>}

UserLats == {1}
FlowRadii == {1, 10}
AggRadii == {1, 4, 10}
LocationNames == {"", "Connaught Place"}
PhoneNumbers == {<<>>, <<"9", "8">>, <<"+", "9", "1">>, <<"+", "a">>}

\* the module constants as a deployment may have set them: the placeholder
\* texts of the setup guide, an empty or malformed value, a well-formed one
AccountSids ==
    {[placeholder |-> TRUE, starts_AC |-> FALSE, len |-> 23],
     [placeholder |-> FALSE, starts_AC |-> FALSE, len |-> 34],
     TWILIO_ACCOUNT_SID}
AuthTokens ==
    {[placeholder |-> TRUE, len |-> 22], [placeholder |-> FALSE, len |-> 0],
     [placeholder |-> FALSE, len |-> 29], [placeholder |-> FALSE, len |-> 30],
     TWILIO_AUTH_TOKEN}
SenderNumbers ==
    {[placeholder |-> TRUE, starts_plus |-> FALSE],
     [placeholder |-> FALSE, starts_plus |-> FALSE],
     TWILIO_PHONE_NUMBER}
Configs ==
    {[sid |-> a, token |-> t, number |-> n] :
        a \in AccountSids, t \in AuthTokens, n \in SenderNumbers}

NotAgain == [kind |-> "none"]

InitAppIdle ==
    /\ df = <<>>
    /\ df_distance = <<>>
    /\ weather_data = None
    /\ twilio_config = SourceConfig
    /\ again = NotAgain
    /\ location_name = ""
    /\ phone_number = <<>>
    /\ user_lat = 1
    /\ user_lon = 0
    /\ radius = 10
    /\ send_alert_btn = FALSE
    /\ header = [kind |-> "none"]
    /\ alerts_tab = NoAlertsTab
    /\ ui = <<>>
    /\ nearby = <<>>
    /\ alert_message = NoMessage
    /\ provider = "idle"
    /\ send_result = NotCalled
    /\ sms_log = <<>>
    /\ now = 0

(***************************************************************************)
(* The classifier on its own: an AQI value is drawn, then classified.      *)
(***************************************************************************)
NoValue == "none"

AqiNumbers == {Rat(n, d) : n \in 0..(MaxAqi * MaxDen), d \in 1..MaxDen}

\* a missing value as pandas and JSON carry it
AqiMissing == {None, nan}

AqiInputs == AqiNumbers \cup AqiMissing

NoCall == [arg |-> [kind |-> "none"], ret |-> [kind |-> "none"]]

InitConvIdle ==
    /\ rows = <<>>
    /\ conv_call = NoCall

InitClassIdle ==
    /\ aqi = Rat(0, 1)
    /\ category = NoValue

InitClassify ==
    /\ aqi \in AqiInputs
    /\ category = NoValue
    /\ InitConvIdle
    /\ InitAppIdle

\* category, color, emoji, advice = get_aqi_category(aqi)
Classify ==
    /\ category = NoValue
    /\ category' = get_aqi_category(aqi)
    /\ UNCHANGED <<aqi, convVars, appVars>>

\* the next value to classify
NextAqi ==
    /\ category # NoValue
    /\ aqi' \in AqiInputs
    /\ category' = NoValue
    /\ UNCHANGED <<convVars, appVars>>

NextClassify == Classify \/ NextAqi

SpecClassify == InitClassify /\ [][NextClassify]_vars

(***************************************************************************)
(* The converter as fetch_openaq_latest uses it (lines 871-907): each row  *)
(* of the feed has its pm25 value converted and the estimate classified.   *)
(***************************************************************************)
Concentrations == (0 - MaxNeg)..MaxConc

InitConv ==
    /\ InitConvIdle
    /\ InitClassIdle
    /\ InitAppIdle

\* lines 893-901 and 907: aqi_est = pm25_to_aqi(pm25); rows.append({...});
\* df['aqi'].apply(get_aqi_category).  Only the last two rows are kept.
ConvertRow(c) ==
    /\ \E ret \in {pm25_to_aqi_of(Float(c))} :
          LET est == ret.value
              row == [pm25 |-> c, aqi |-> est,
                      category |-> get_aqi_category(Rat(est, 1))]
          IN  /\ conv_call' = [arg |-> Float(c), ret |-> ret]
              /\ rows' = IF Len(rows) < 2 THEN Append(rows, row)
                          ELSE <<rows[2], row>>
    /\ UNCHANGED <<classVars, appVars>>

\* a row whose value float() does not accept: its estimate is nan, and lines
\* 905-906 (to_numeric, dropna) drop the row before the classification
ConvertDropped(v) ==
    /\ LET ret == pm25_to_aqi_of(v)
       IN  /\ conv_call' = [arg |-> v, ret |-> ret]
           /\ rows' = rows
    /\ UNCHANGED <<classVars, appVars>>

\* the values the next row of the feed may carry
NextValues ==
    IF rows = <<>> THEN Concentrations
    ELSE {c \in (rows[Len(rows)].pm25 - MaxStep)..(rows[Len(rows)].pm25 + MaxStep) :
             c \in Concentrations}

NextConv ==
    \/ \E c \in NextValues : ConvertRow(c)
    \/ \E v \in NotNumeric : ConvertDropped(v)

SpecConv == InitConv /\ [][NextConv]_vars

(***************************************************************************)
(* Aggregation on its own (lines 658-670 of the tab): the stations near    *)
(* the query point are selected and the alert message is composed.         *)
(***************************************************************************)
InitAgg ==
    /\ df \in AggFeeds
    /\ df_distance = <<>>
    /\ weather_data = FullWeather
    /\ twilio_config = SourceConfig
    /\ again = NotAgain
    /\ provider = "idle"
    /\ location_name = "Connaught Place"
    /\ phone_number = <<"+", "9", "1">>
    /\ user_lat \in UserLats
    /\ user_lon = 0
    /\ radius \in AggRadii
    /\ send_alert_btn = TRUE
    /\ header = render_header(df)
    /\ alerts_tab = alerts_shown(df)
    /\ ui = <<>>
    /\ nearby = <<>>
    /\ alert_message = NoMessage
    /\ send_result = NotCalled
    /\ sms_log = <<>>
    /\ now = 0
    /\ InitClassIdle
    /\ InitConvIdle

Aggregate ==
    /\ df_distance = <<>>
    /\ df_distance' = assign_distance(df_distance, df, user_lat, user_lon)
    /\ nearby' = get_nearby_stations(df, df_distance, user_lat, user_lon,
                                     radius)
    /\ alert_message' = IF none_found(nearby') THEN NoMessage
                        ELSE create_alert_message(nearby', weather_data,
                                                  location_name)
    /\ ui' = IF none_found(nearby') THEN <<"warning_no_stations">>
             ELSE IF alert_message' = KeyError THEN <<"exception">>
             ELSE <<"preview">>
    /\ UNCHANGED <<df, inputVars, envVars, send_alert_btn, header, alerts_tab,
                   provider, send_result, again, sms_log, now, classVars,
                   convVars>>

\* the same selection and message once more, on the df the first call left:
\* the one that has the distance column
AggregateAgain ==
    /\ df_distance # <<>>
    /\ again = NotAgain
    /\ df_distance' = assign_distance(df_distance, df, user_lat, user_lon)
    /\ LET nearby_stations ==
               get_nearby_stations(df, df_distance, user_lat, user_lon, radius)
       IN  again' = [kind |-> "done",
                     nearby |-> nearby_stations,
                     alert_message |->
                        IF none_found(nearby_stations) THEN NoMessage
                        ELSE create_alert_message(nearby_stations,
                                                  weather_data, location_name)]
    /\ UNCHANGED <<df, inputVars, envVars, send_alert_btn, header, alerts_tab,
                   ui, nearby, alert_message, provider, send_result, sms_log,
                   now, classVars, convVars>>

NextAgg == Aggregate \/ AggregateAgain

SpecAgg == InitAgg /\ [][NextAgg]_vars

(***************************************************************************)
(* The message on its own: as the aggregation, the weather feed in any of  *)
(* the shapes fetch_weather_data can return.                               *)
(***************************************************************************)
InitMsg ==
    /\ df \in FlowFeeds \ {<<>>}
    /\ df_distance = <<>>
    /\ weather_data \in Weathers
    /\ twilio_config = SourceConfig
    /\ again = NotAgain
    /\ provider = "idle"
    /\ location_name = "Connaught Place"
    /\ phone_number = <<"+", "9", "1">>
    /\ user_lat \in UserLats
    /\ user_lon = 0
    /\ radius \in FlowRadii
    /\ send_alert_btn = TRUE
    /\ header = render_header(df)
    /\ alerts_tab = alerts_shown(df)
    /\ ui = <<>>
    /\ nearby = <<>>
    /\ alert_message = NoMessage
    /\ send_result = NotCalled
    /\ sms_log = <<>>
    /\ now = 0
    /\ InitClassIdle
    /\ InitConvIdle

SpecMsg == InitMsg /\ [][NextAgg]_vars

(***************************************************************************)
(* The whole script (lines 810-842): every action but Tick is one run of   *)
(* it, from fetch_live_data to the SMS tab.                                *)
(***************************************************************************)
\* lines 813-814: the error shown instead of the tabs
no_data_shown(d) == IF d = <<>> THEN <<"error_no_data">> ELSE <<>>

\* what the header and the alerts tab show for each feed of the model
\* (f @@ <<>> is f, tabulated once by TLC)
FlowHeader == [feed \in FlowFeeds |-> render_header(feed)] @@ <<>>
FlowAlerts == [feed \in FlowFeeds |-> alerts_shown(feed)] @@ <<>>

Init ==
    /\ df \in FlowFeeds
    /\ df_distance = <<>>
    /\ weather_data = FullWeather
    /\ twilio_config = SourceConfig
    /\ again = NotAgain
    /\ provider = "idle"
    /\ location_name = ""
    /\ phone_number = <<>>
    /\ user_lat \in UserLats
    /\ user_lon = 0
    /\ radius = 10
    /\ send_alert_btn = FALSE
    /\ header = render_header(df)
    /\ alerts_tab = alerts_shown(df)
    /\ ui = no_data_shown(df)
    /\ nearby = <<>>
    /\ alert_message = NoMessage
    /\ send_result = NotCalled
    /\ sms_log = <<>>
    /\ now = 0
    /\ InitClassIdle
    /\ InitConvIdle

\* a run the button did not cause; fetch_live_data answers from its cache
\* (feed = df) or, the cache expired (ttl 600 s), fetches the feed again
Rerun(feed) ==
    /\ df' = feed
    /\ send_alert_btn' = FALSE
    /\ header' = FlowHeader[feed]
    /\ alerts_tab' = FlowAlerts[feed]
    /\ ui' = no_data_shown(feed)
    /\ df_distance' = <<>>
    /\ nearby' = <<>>
    /\ alert_message' = NoMessage
    /\ provider' = "idle"
    /\ send_result' = NotCalled
    /\ again' = NotAgain
    /\ UNCHANGED <<inputVars, envVars, sms_log, now, classVars, convVars>>

\* the provider's record of the messages it accepted, the last two kept
log_send(log, entry) ==
    IF Len(log) < 2 THEN Append(log, entry) ELSE <<log[2], entry>>

\* lines 386-390: what client.messages.create can do with the recipient; the
\* provider accepts a message only for a number in the international form
Digits == {"0", "1", "2", "3", "4", "5", "6", "7", "8", "9"}

is_e164(p) ==
    /\ Len(p) >= 2
    /\ p[1] = "+"
    /\ \A i \in 2..Len(p) : p[i] \in Digits

provider_outcomes(phone) ==
    IF is_e164(phone) THEN Twilio ELSE Twilio \ {"accepted"}

\* the run that pressing "Send Alert Now" causes; the tab and its button
\* exist only when the feed has rows (line 815)
SendAlertNow(loc, phone, rad) ==
    /\ df # <<>>
    /\ location_name' = loc
    /\ phone_number' = phone
    /\ radius' = rad
    /\ send_alert_btn' = TRUE
    /\ header' = FlowHeader[df]
    /\ alerts_tab' = FlowAlerts[df]
    /\ again' = NotAgain
    /\ \E out \in {prepare_alert(df, weather_data, loc, phone, user_lat,
                                   user_lon, rad)} :
           /\ df_distance' = out.df_distance
           /\ nearby' = out.nearby
           /\ alert_message' = out.alert_message
           /\ IF out.sends
              THEN \E twilio \in provider_outcomes(phone) :
                     LET res == send_sms_alert(twilio_config, phone,
                                               out.alert_message, twilio)
                     IN  /\ provider' = twilio
                         /\ send_result' = res
                         /\ ui' = Append(out.ui, show_result(res))
                         /\ sms_log' = IF res.success
                                       THEN log_send(sms_log,
                                                [to |-> phone, at |-> now])
                                       ELSE sms_log
              ELSE /\ provider' = "idle"
                   /\ send_result' = NotCalled
                   /\ ui' = out.ui
                   /\ sms_log' = sms_log
    /\ UNCHANGED <<df, user_lat, user_lon, envVars, now, classVars, convVars>>

\* time passes
Tick ==
    /\ now < MaxTime
    /\ now' = now + 1
    /\ UNCHANGED <<df, inputVars, envVars, runVars, sms_log, classVars,
                   convVars>>

Next ==
    \/ \E feed \in FlowFeeds : Rerun(feed)
    \/ \E loc \in LocationNames, phone \in PhoneNumbers, rad \in FlowRadii :
          SendAlertNow(loc, phone, rad)
    \/ Tick

Spec == Init /\ [][Next]_vars

(***************************************************************************)
(* send_sms_alert on its own (lines 363-402): called with a message for    *)
(* any recipient, under any setting of the three module constants.         *)
(***************************************************************************)
InitSend ==
    /\ df = <<[lat |-> 2, lon |-> 0, aqi |-> 160]>>
    /\ df_distance = assign_distance(<<>>, df, 1, 0)
    /\ weather_data = FullWeather
    /\ twilio_config \in Configs
    /\ again = NotAgain
    /\ provider = "idle"
    /\ location_name = "Connaught Place"
    /\ phone_number \in PhoneNumbers
    /\ user_lat = 1
    /\ user_lon = 0
    /\ radius = 10
    /\ send_alert_btn = TRUE
    /\ header = render_header(df)
    /\ alerts_tab = alerts_shown(df)
    /\ ui = <<>>
    /\ nearby = get_nearby_stations(df, <<>>, 1, 0, 10)
    /\ alert_message = create_alert_message(nearby, weather_data,
                                            location_name)
    /\ send_result = NotCalled
    /\ sms_log = <<>>
    /\ now = 0
    /\ InitClassIdle
    /\ InitConvIdle

\* success, message = send_sms_alert(phone_number, alert_message)
Send(twilio) ==
    /\ LET res == send_sms_alert(twilio_config, phone_number, alert_message,
                                 twilio)
       IN  /\ provider' = twilio
           /\ send_result' = res
           /\ ui' = <<show_result(res)>>
           /\ sms_log' = IF res.success
                         THEN log_send(sms_log,
                                       [to |-> phone_number, at |-> now])
                         ELSE sms_log
    /\ UNCHANGED <<df, df_distance, inputVars, envVars, send_alert_btn,
                   header, alerts_tab, nearby, alert_message, again, now,
                   classVars, convVars>>

NextSend == \E twilio \in provider_outcomes(phone_number) : Send(twilio)

SpecSend == InitSend /\ [][NextSend]_vars

(***************************************************************************)
(* The alerts tab on its own (lines 557-582): a feed whose AQI values lie  *)
(* at and around the bounds of the levels is rendered.                     *)
(***************************************************************************)
AlertFeeds ==
    Feeds({2}, {40, 150, 151, 200, 201, 300, 301}, MaxAlertRows) \ {<<>>}

InitAlerts ==
    /\ df \in AlertFeeds
    /\ df_distance = <<>>
    /\ weather_data = FullWeather
    /\ twilio_config = SourceConfig
    /\ again = NotAgain
    /\ provider = "idle"
    /\ location_name = ""
    /\ phone_number = <<>>
    /\ user_lat = 1
    /\ user_lon = 0
    /\ radius = 10
    /\ send_alert_btn = FALSE
    /\ header = [kind |-> "none"]
    /\ alerts_tab = NoAlertsTab
    /\ ui = <<>>
    /\ nearby = <<>>
    /\ alert_message = NoMessage
    /\ send_result = NotCalled
    /\ sms_log = <<>>
    /\ now = 0
    /\ InitClassIdle
    /\ InitConvIdle

\* the run up to the second tab
RenderAlerts ==
    /\ alerts_tab = NoAlertsTab
    /\ header' = render_header(df)
    /\ alerts_tab' = alerts_shown(df)
    /\ UNCHANGED <<df, df_distance, inputVars, envVars, send_alert_btn, ui,
                   nearby, alert_message, provider, send_result, again,
                   sms_log, now, classVars, convVars>>

NextAlerts == RenderAlerts

SpecAlerts == InitAlerts /\ [][NextAlerts]_vars

(***************************************************************************)
(* Claims about the classifier                                             *)
(***************************************************************************)
\* a is in the half-open range (lo, hi]
InRange(a, lo, hi) == lo * a.den < a.num /\ a.num <= hi * a.den

\* the ranges of the categories, as spec.md 4.1 states them
CategoryRanges ==
    [c \in {"Good", "Moderate", "Unhealthy for Sensitive Groups",
            "Unhealthy", "Very Unhealthy", "Hazardous"} |->
        CASE c = "Good" -> <<-1, 50>>
          [] c = "Moderate" -> <<50, 100>>
          [] c = "Unhealthy for Sensitive Groups" -> <<100, 150>>
          [] c = "Unhealthy" -> <<150, 200>>
          [] c = "Very Unhealthy" -> <<200, 300>>
          [] c = "Hazardous" -> <<300, MaxAqi * MaxDen + 1>>]

\* C1: every AQI value a >= 0 is given exactly one category, the one whose
\* range (lower bound exclusive, upper bound inclusive) holds a: Good up to
\* 50, Moderate up to 100, Unhealthy for Sensitive Groups up to 150,
\* Unhealthy up to 200, Very Unhealthy up to 300, Hazardous above; exactly
\* one range holds a.
C1_CategoryByInclusiveUpperBound ==
    (category # NoValue /\ IsNumber(aqi)) =>
        /\ category \in DOMAIN CategoryRanges
        /\ \A c \in DOMAIN CategoryRanges :
              (category = c) <=>
                  InRange(aqi, CategoryRanges[c][1], CategoryRanges[c][2])
        /\ Cardinality({c \in DOMAIN CategoryRanges :
              InRange(aqi, CategoryRanges[c][1], CategoryRanges[c][2])}) = 1

\* a boundary value (here 150) has been classified into the lower category
C1_Witness ==
    /\ aqi = Rat(300, 2)
    /\ category = "Unhealthy for Sensitive Groups"

\* C13: for a missing or non-numeric AQI (None, nan) the classifier returns
\* the category Unknown and raises no error; Unknown is returned for such
\* inputs only, and a missing value is never given one of the six numeric
\* categories.
C13_MissingIsUnknown ==
    category # NoValue =>
        /\ aqi \in AqiMissing => category = "Unknown"
        /\ category = "Unknown" => aqi \in AqiMissing

(***************************************************************************)
(* Claims about the converter                                              *)
(***************************************************************************)
InTable(c) == 0 <= c /\ c <= 10008

\* C2: for concentrations c1 <= c2 in [0, 500.4], pm25_to_aqi(c1) <=
\* pm25_to_aqi(c2), for every value of the interval, the values between two
\* tabulated segments included.
C2_Monotone ==
    \A i, j \in 1..Len(rows) :
        (InTable(rows[i].pm25) /\ InTable(rows[j].pm25)
            /\ rows[i].pm25 <= rows[j].pm25)
        => rows[i].aqi <= rows[j].aqi

\* C9: at the ends of every segment the converter returns the ends of the
\* segment's AQI range: pm25_to_aqi(Clow) = Ilow and pm25_to_aqi(Chigh) =
\* Ihigh; so 12.0 gives 50 and 12.1 gives 51.
C9_SegmentEnds ==
    \A i \in 1..Len(rows) : \A k \in 1..Len(breakpoints) :
        /\ rows[i].pm25 = Clow(breakpoints[k])
              => rows[i].aqi = Ilow(breakpoints[k])
        /\ rows[i].pm25 = Chigh(breakpoints[k])
              => rows[i].aqi = Ihigh(breakpoints[k])

\* 12.0 and then 12.1 have been converted, to 50 and to 51
C9_Witness ==
    /\ Len(rows) = 2
    /\ rows[1].pm25 = 240 /\ rows[1].aqi = 50
    /\ rows[2].pm25 = 242 /\ rows[2].aqi = 51

\* C10: for a concentration inside a segment the result is the segment's
\* linear formula rounded to a nearest integer, it lies in the segment's
\* [Ilow, Ihigh], and no other segment holds the concentration.
C10_SegmentFormula ==
    \A i \in 1..Len(rows) : \A k \in 1..Len(breakpoints) :
        LET b == breakpoints[k]
            c == rows[i].pm25
            num == (Ihigh(b) - Ilow(b)) * (c - Clow(b))
            den == Chigh(b) - Clow(b)
        IN  (Clow(b) <= c /\ c <= Chigh(b)) =>
                /\ 2 * Abs((rows[i].aqi - Ilow(b)) * den - num) <= den
                /\ Ilow(b) <= rows[i].aqi /\ rows[i].aqi <= Ihigh(b)
                /\ \A m \in 1..Len(breakpoints) :
                      m # k => ~(Clow(breakpoints[m]) <= c
                                 /\ c <= Chigh(breakpoints[m]))

\* 0.15 ug/m3 (exactly 0.625 on the AQI scale) has been converted, to 1
C10_Witness ==
    \E i \in 1..Len(rows) : rows[i].pm25 = 3 /\ rows[i].aqi = 1

OverRange(arg) == arg.kind = "float" /\ arg.c > 10008

\* C11: a negative concentration is rejected as invalid input: pm25_to_aqi
\* never returns an AQI number for c < 0 (500 is for over-range input only).
C11_NegativeRejected ==
    (conv_call.arg.kind = "float" /\ conv_call.arg.c < 0)
        => conv_call.ret.kind # "number"

\* C12: for a concentration above 500.4 pm25_to_aqi returns 500; for an
\* argument that is not numeric it returns nan and does not raise; in neither
\* case does it return an AQI below 500.
C12_OverRangeAndNotNumeric ==
    /\ OverRange(conv_call.arg) => conv_call.ret = Number(500)
    /\ conv_call.arg \in NotNumeric => conv_call.ret = nan
    /\ (OverRange(conv_call.arg) \/ conv_call.arg \in NotNumeric)
          => ~(conv_call.ret.kind = "number" /\ conv_call.ret.value < 500)

\* 500.5 ug/m3 has been converted, to 500, and then a text, to nan, the row
\* of the text being dropped
C12_Witness ==
    /\ rows # <<>>
    /\ rows[Len(rows)].pm25 = 10010 /\ rows[Len(rows)].aqi = 500
    /\ conv_call = [arg |-> [kind |-> "text"], ret |-> nan]

\* the categories in ascending order of severity
Severity ==
    [c \in DOMAIN CategoryRanges |->
        CASE c = "Good" -> 1
          [] c = "Moderate" -> 2
          [] c = "Unhealthy for Sensitive Groups" -> 3
          [] c = "Unhealthy" -> 4
          [] c = "Very Unhealthy" -> 5
          [] c = "Hazardous" -> 6]

\* the category whose AQI range is the range of the k-th segment
SegmentCategory ==
    <<"Good", "Moderate", "Unhealthy for Sensitive Groups", "Unhealthy",
      "Very Unhealthy", "Hazardous", "Hazardous">>

\* C24: for concentrations in [0, 500.4] the category given to
\* pm25_to_aqi(c) is non-decreasing in c, and for c inside the k-th segment
\* it is the category whose range is the segment's [Ilow, Ihigh].
C24_ConverterClassifierAgree ==
    /\ \A i, j \in 1..Len(rows) :
          (InTable(rows[i].pm25) /\ InTable(rows[j].pm25)
              /\ rows[i].pm25 <= rows[j].pm25)
          => Severity[rows[i].category] <= Severity[rows[j].category]
    /\ \A i \in 1..Len(rows) : \A k \in 1..Len(breakpoints) :
          (Clow(breakpoints[k]) <= rows[i].pm25
              /\ rows[i].pm25 <= Chigh(breakpoints[k]))
          => rows[i].category = SegmentCategory[k]

(***************************************************************************)
(* Quantities the specification names and the script does not have         *)
(***************************************************************************)
max_retries == 3            \* spec.md 4.6, tries per provider
cooldown_period == 2        \* spec.md 3 (AlertConfig), in ticks of the clock
unhealthy_threshold == 151  \* spec.md 8, scenario B
max_stations == 3           \* spec.md 8, scenario A

(***************************************************************************)
(* Claims about the "Send Alert Now" flow                                  *)
(***************************************************************************)
Sent == send_result.called /\ send_result.success

\* the rows of df within the radius of the query point, by index
InRadius ==
    {i \in 1..Len(df) : 100 * Abs(df[i].lat - user_lat) <= 100 * radius}

ValidInputs ==
    /\ location_name # ""
    /\ phone_number # <<>>
    /\ phone_number[1] = "+"

\* C3: two sends to the same recipient are never closer together than
\* cooldown_period: a request made less than cooldown_period after a send to
\* the recipient is not sent.
C3_CooldownBetweenSends ==
    \A i, j \in 1..Len(sms_log) :
        (i < j /\ sms_log[i].to = sms_log[j].to)
            => sms_log[j].at - sms_log[i].at >= cooldown_period

\* C4: an alert is sent only when the AQI signal (the average of the
\* selected stations) is at or above the threshold of the target severity.
C4_SentOnlyAtOrAboveThreshold ==
    (Sent /\ alert_message.kind = "alert")
        => alert_message.avg_aqi.num
              >= unhealthy_threshold * alert_message.avg_aqi.den

\* C5: without a signal nothing is sent and no value or category is made up:
\* with an empty feed the run shows the no-data error, no metrics and no
\* button; with no station within the radius the press sends nothing,
\* composes no message and, the inputs being valid, shows the no-stations
\* warning alone.
C5_NoSignalNoAlert ==
    /\ df = <<>> =>
          /\ ui = <<"error_no_data">>
          /\ ~send_alert_btn
          /\ header = [kind |-> "none"]
          /\ alert_message = NoMessage
          /\ send_result = NotCalled
    /\ (send_alert_btn /\ InRadius = {}) =>
          /\ alert_message = NoMessage
          /\ send_result = NotCalled
          /\ ValidInputs => ui = <<"warning_no_stations">>

\* the button was pressed with valid inputs and no station in the radius
C5_Witness ==
    /\ send_alert_btn /\ ValidInputs
    /\ df # <<>> /\ InRadius = {}
    /\ ui = <<"warning_no_stations">>

\* C14: a recipient that is not '+' followed by digits only is rejected
\* before any call to the messaging provider: in every run the provider is
\* called only for a recipient of that form.
C14_ProviderCalledOnlyForPattern ==
    IF send_result.called
    THEN send_result.provider_called => is_e164(phone_number)
    ELSE TRUE

\* C22: a press of "Send Alert Now" causes at most one call of
\* send_sms_alert, made only after the guards passed in their order
\* (location name and phone number non-empty, the phone number starts with
\* '+', a station lies within the radius); when a guard fails nothing is
\* sent and exactly one error or warning is shown.
C22_OneSendAfterGuards ==
    /\ ~send_alert_btn => send_result = NotCalled
    /\ send_alert_btn =>
          /\ send_result.called => (ValidInputs /\ InRadius # {})
          /\ Cardinality({k \in 1..Len(ui) :
                             ui[k] \in {"success", "error_send"}})
                = IF send_result.called THEN 1 ELSE 0
          /\ IF location_name = "" \/ phone_number = <<>>
             THEN ui = <<"error_required_fields">> /\ send_result = NotCalled
             ELSE IF phone_number[1] # "+"
             THEN ui = <<"error_country_code">> /\ send_result = NotCalled
             ELSE IF InRadius = {}
             THEN ui = <<"warning_no_stations">> /\ send_result = NotCalled
             ELSE send_result.called

\* a press with every guard passed: the preview, the table, one send
C22_Witness ==
    /\ send_alert_btn /\ ValidInputs /\ InRadius # {}
    /\ send_result.called /\ send_result.success
    /\ ui = <<"preview", "nearby_table", "success">>

(***************************************************************************)
(* Claims about the alerts tab                                             *)
(***************************************************************************)
\* the stations listed under the k-th level, by index
ListedUnder(k) ==
    {alerts_tab.cards[k][n] : n \in 1..Len(alerts_tab.cards[k])}

\* C23: in the alerts tab every station is listed under at most one level,
\* under level L (Hazardous, Very Unhealthy, Unhealthy) iff
\* get_aqi_category of its AQI is L; a station with AQI <= 150 is listed
\* under no level, and the no-alerts notice is shown iff no station has
\* AQI > 150.
C23_ListedByCategory ==
    alerts_tab.kind = "alerts" =>
        /\ \A i \in 1..Len(df) :
              /\ Cardinality({k \in 1..Len(Levels) : i \in ListedUnder(k)}) <= 1
              /\ \A k \in 1..Len(Levels) :
                    i \in ListedUnder(k)
                        <=> get_aqi_category(Rat(df[i].aqi, 1)) = Levels[k]
              /\ df[i].aqi <= 150
                    => \A k \in 1..Len(Levels) : i \notin ListedUnder(k)
        /\ \A k \in 1..Len(Levels) :
              Len(alerts_tab.cards[k]) = Cardinality(ListedUnder(k))
        /\ alerts_tab.no_alerts_notice
              <=> \A i \in 1..Len(df) : df[i].aqi <= 150

\* a feed with AQI 150, 151 and 301: the second station is listed under
\* Unhealthy, the third under Hazardous, the first nowhere
C23_Witness ==
    /\ alerts_tab.kind = "alerts"
    /\ Len(df) = 3
    /\ df[1].aqi = 150 /\ df[2].aqi = 151 /\ df[3].aqi = 301
    /\ ListedUnder(1) = {3} /\ ListedUnder(2) = {} /\ ListedUnder(3) = {2}
    /\ ~alerts_tab.no_alerts_notice

(***************************************************************************)
(* Claims about send_sms_alert                                             *)
(***************************************************************************)
\* the credentials the claims call missing or malformed
Malformed(config) ==
    \/ config.sid.placeholder \/ ~config.sid.starts_AC
    \/ config.token.placeholder \/ config.token.len < 30
    \/ config.number.placeholder \/ ~config.number.starts_plus

CredentialMessages ==
    {"account_sid_not_configured", "auth_token_not_configured",
     "phone_number_not_configured"}

\* the message of the first credential that fails its check
CredentialMessage(config) ==
    IF config.sid.placeholder \/ ~config.sid.starts_AC
    THEN "account_sid_not_configured"
    ELSE IF config.token.placeholder \/ config.token.len < 30
    THEN "auth_token_not_configured"
    ELSE "phone_number_not_configured"

NoProviderCall ==
    /\ ~send_result.client_created
    /\ ~send_result.provider_called
    /\ send_result.attempts = 0

\* C15 as claimed: with missing or malformed credentials send_sms_alert
\* returns failure with a credential-specific message, creates no provider
\* client, makes no provider call and no retry.
C15_MalformedCredentialsMessage ==
    (send_result.called /\ Malformed(twilio_config)) =>
        /\ ~send_result.raised /\ ~send_result.success
        /\ send_result.detail \in CredentialMessages
        /\ NoProviderCall

\* C15 as amended: with missing or malformed credentials send_sms_alert
\* returns failure, creates no provider client, makes no provider call and
\* no retry; the message is the one of the first credential that fails its
\* check when the twilio library can be imported, and the
\* library-not-installed message when it cannot.
C15_MalformedCredentialsFail ==
    (send_result.called /\ Malformed(twilio_config)) =>
        /\ ~send_result.raised /\ ~send_result.success
        /\ send_result.detail =
              IF provider = "not_installed" THEN "twilio_not_installed"
              ELSE CredentialMessage(twilio_config)
        /\ NoProviderCall

\* a token of 29 characters, the SID well formed, the library installed and
\* the recipient valid: the call failed on the token
C15_Witness ==
    /\ send_result.called
    /\ twilio_config.sid = TWILIO_ACCOUNT_SID
    /\ twilio_config.token = [placeholder |-> FALSE, len |-> 29]
    /\ provider = "accepted" /\ phone_number = <<"+", "9", "1">>
    /\ send_result.detail = "auth_token_not_configured"
    /\ ~send_result.success /\ NoProviderCall

\* no provider is configured: a credential still is the placeholder text
NoProviderConfigured(config) ==
    config.sid.placeholder \/ config.token.placeholder
        \/ config.number.placeholder

C17_TransientFailureRetried ==
    (send_result.called /\ provider = "error_other"
        /\ send_result.provider_called /\ ~send_result.success) =>
        /\ send_result.attempts > 1
        /\ send_result.attempts <= max_retries

\* C18: no failure leaves send_sms_alert: whatever happens (library missing,
\* configuration error, invalid recipient, authentication failure,
\* unverified number, any other provider exception) it returns
\* (False, detail) with a non-empty detail, and it returns True only when the
\* provider call completed without exception.
C18_NoFailureEscapes ==
    send_result.called =>
        /\ ~send_result.raised
        /\ send_result.success \in BOOLEAN
        /\ send_result.success <=>
              /\ provider = "accepted"
              /\ ~Malformed(twilio_config)
              /\ startswith_plus(phone_number)
        /\ send_result.success => send_result.provider_called
        /\ ~send_result.success => send_result.detail # ""
        /\ provider = "not_installed"
              => send_result.detail = "twilio_not_installed"
        /\ (send_result.provider_called /\ provider = "error_401")
              => send_result.detail = "authentication_error"
        /\ (send_result.provider_called /\ provider = "error_unverified")
              => send_result.detail = "number_not_verified"
        /\ (send_result.provider_called /\ provider = "error_other")
              => send_result.detail = "error_sending_sms"

\* the provider call raised an exception that is neither an authentication
\* nor a verification error, and the call returned the failure
C18_Witness ==
    /\ send_result.called /\ provider = "error_other"
    /\ send_result.provider_called
    /\ ~send_result.raised /\ ~send_result.success
    /\ send_result.detail = "error_sending_sms"

(***************************************************************************)
(* Claims about the selection and the aggregate                            *)
(***************************************************************************)
Aggregated == df_distance # <<>>

\* C6: the selected stations are exactly the stations of the feed at a
\* distance <= radius_km from the query point (a station at exactly
\* radius_km included), each once and with its own distance, in ascending
\* order of distance.
C6_ExactlyWithinRadiusSorted ==
    Aggregated =>
        /\ {nearby[k].idx : k \in 1..Len(nearby)} = InRadius
        /\ Len(nearby) = Cardinality(InRadius)
        /\ \A k \in 1..Len(nearby) :
              /\ nearby[k].lat = df[nearby[k].idx].lat
              /\ nearby[k].aqi = df[nearby[k].idx].aqi
              /\ nearby[k].distance = 100 * Abs(nearby[k].lat - user_lat)
        /\ \A k \in 1..(Len(nearby) - 1) :
              nearby[k].distance <= nearby[k + 1].distance

\* of three stations at 4, 11 and 1 km and a radius of 4 km, the third and
\* the first are selected, in that order
C6_Witness ==
    /\ Aggregated /\ radius = 4 /\ Len(df) = 3
    /\ df[1].lat = 5 /\ df[2].lat = 12 /\ df[3].lat = 2
    /\ Len(nearby) = 2
    /\ nearby[1].idx = 3 /\ nearby[1].distance = 100
    /\ nearby[2].idx = 1 /\ nearby[2].distance = 400

\* C7: the number of stations that contribute to the aggregate never
\* exceeds max_stations.
C7_AtMostMaxStations ==
    alert_message.kind = "alert" =>
        /\ Len(nearby) <= max_stations
        /\ alert_message.avg_aqi.den <= max_stations

ScenarioA ==
    /\ df = <<[lat |-> 2, lon |-> 0, aqi |-> 40],
              [lat |-> 5, lon |-> 0, aqi |-> 60]>>
    /\ user_lat = 1 /\ radius = 10

RECURSIVE SumOver(_)
SumOver(S) ==
    IF S = {} THEN 0
    ELSE LET i == CHOOSE x \in S : TRUE IN df[i].aqi + SumOver(S \ {i})

Incomplete(weather) ==
    \/ ~has_current(weather)
    \/ ~weather.has_weather_code
    \/ ~weather.has_temperature_2m

\* C19: with the weather feed absent or incomplete (None, no 'current', or a
\* 'current' that lacks a field such as the temperature) the message is
\* composed without error, the missing description and temperature are
\* "N/A", and the AQI part is the same as with the weather present.
C19_ComposedWithoutWeather ==
    (Aggregated /\ nearby # <<>> /\ Incomplete(weather_data)) =>
        /\ alert_message.kind = "alert"
        /\ (~has_current(weather_data) \/ ~weather_data.has_weather_code)
              => alert_message.weather_desc = "N/A"
        /\ (~has_current(weather_data) \/ ~weather_data.has_temperature_2m)
              => alert_message.temp = NA
        /\ alert_message.avg_aqi = mean_aqi(nearby)
        /\ alert_message.category = get_aqi_category(mean_aqi(nearby))

\* C20: the aggregate computed a second time for the same stations, query
\* point and radius, the station data unchanged, selects the same stations
\* in the same order and gives the same AQI value: what the first call did
\* to its input does not change the result of the second.
C20_SecondAggregateSame ==
    again.kind = "done" =>
        /\ again.nearby = nearby
        /\ again.alert_message = alert_message

\* the second call has selected the same two stations, 1 and 4 km away
C20_Witness ==
    /\ again.kind = "done"
    /\ Len(df_distance) = 3 /\ radius = 4
    /\ Len(again.nearby) = 2
    /\ again.nearby[1].distance = 100 /\ again.nearby[2].distance = 400
    /\ again.alert_message.kind = "alert"
    /\ again.alert_message = alert_message

\* C21: the station the message reports as "Worst Station" is a station of
\* the highest AQI among the nearby stations the message was composed from.
C21_WorstStationHasMaxAqi ==
    alert_message.kind = "alert" =>
        /\ \E k \in 1..Len(nearby) :
              /\ nearby[k].idx = alert_message.worst_station
              /\ nearby[k].aqi = alert_message.worst_aqi
        /\ \A k \in 1..Len(nearby) : nearby[k].aqi <= alert_message.worst_aqi

\* C25: get_nearby_stations leaves the station collection it is given as it
\* was: no field of a station changed, no station added or removed, and no
\* field added; after the call the collection has no distance column.
C25_InputNotChanged ==
    nearby # <<>> =>
        /\ df_distance = <<>>
        /\ \A k \in 1..Len(nearby) :
              /\ df[nearby[k].idx].lat = nearby[k].lat
              /\ df[nearby[k].idx].lon = nearby[k].lon
              /\ df[nearby[k].idx].aqi = nearby[k].aqi

====
